---- MODULE Spec2Model ----
(***************************************************************************)
(* Model of the adaptive video recommender of src/__main__.py (the richer  *)
(* script variant, lines 1-251; the simpler variant of lines 252-445 is    *)
(* modelled in its own section): the feedback store (load_feedback,        *)
(* save_feedback), the weight model and selector (pick_video) and the      *)
(* session loop (interactive_loop).                                        *)
(*                                                                         *)
(* Abstractions.  A video and a CSV row keep the columns the selection     *)
(* logic reads or keys on: keyword, link, feedback, upload_date (in the    *)
(* order of the fieldnames list of save_feedback).  timestamp, title,      *)
(* channel, duration, summary and language are written and never read      *)
(* back by the program, and are left out.  A Python dict is a sequence of  *)
(* values in insertion order, each value carrying its key (the link).      *)
(* Python's None is the value None below; a date is a day number.          *)
(***************************************************************************)
EXTENDS Integers, Sequences, FiniteSets, TLC

VARIABLES
    feedback_file,    \* FEEDBACK_FILE on disk: [isfile, rows], rows a sequence of CSV rows
    now,              \* datetime.now(), as a day number
    videos,           \* the candidate list handed to interactive_loop
    pc,               \* per session: position in interactive_loop
    feedback_memory,  \* per session: the dict feedback_memory, in insertion order
    video,            \* per session: the local `video` (last pick_video result)
    feedback,         \* per session: the local `feedback` (last normalised input)
    file_exists       \* per session: the local `file_exists` of save_feedback

vars == <<feedback_file, now, videos, pc, feedback_memory, video, feedback, file_exists>>

-----------------------------------------------------------------------------
(* Values *)

None == "<None>"

Sessions == {"s1", "s2"}

\* Bounds of the model
MaxTicks == 1
MaxRows == 4

\* timedelta(days=180)
RECENCY_DAYS == 180

\* datetime.strptime(s, "%Y%m%d") on the date strings of the model; any other
\* string raises ValueError.
DayOf == ("20260510" :> 129) @@ ("20260511" :> 130) @@ ("20261106" :> 309)

Today == DayOf["20261106"]

Ratings == {"never", "maybe", "definitely"}

\* input(...).strip().lower() on the raw lines the user may type
RawInputs == {"never", " Maybe ", "DEFINITELY", " QUIT", "y"}

StripLower(raw) ==
    CASE raw = " Maybe "    -> "maybe"
      [] raw = "DEFINITELY" -> "definitely"
      [] raw = " QUIT"      -> "quit"
      [] OTHER              -> raw

Video(kw, link, date) == [keyword |-> kw, link |-> link, upload_date |-> date]

NoVideo == Video(None, None, None)

\* Candidate lists the fetchers can produce: the same link may come back
\* under several keywords; upload_date is None, a YYYYMMDD string or
\* (defensively handled by pick_video) something unparsable.
PoolMixed ==
    << Video("x", "u1", None),
       Video("x", "u2", None),
       Video("y", "u1", None),
       Video("x", "u3", "20261106") >>

PoolDates ==
    << Video("x", "u1", "20260511"),
       Video("x", "u2", "20260510"),
       Video("y", "u3", "n/a") >>

Pools == {PoolMixed, PoolDates, <<>>}

\* the candidate list of the two interleaved sessions
PoolPair ==
    << Video("x", "u1", None),
       Video("y", "u1", None),
       Video("x", "u2", "20261106") >>

-----------------------------------------------------------------------------
(* Feedback store: the CSV file *)

\* fieldnames of the DictWriter (the columns kept by the model)
fieldnames == <<"keyword", "link", "feedback", "upload_date">>

\* csv.writer writes None as the empty string and any other value as str(value)
CsvField(value) == IF value = None THEN "" ELSE value

\* the fields in the order of the dict video | {"feedback": ...}
writerow_DictOrder(rowdict) ==
    << CsvField(rowdict.keyword), CsvField(rowdict.link),
       CsvField(rowdict.upload_date), CsvField(rowdict.feedback) >>

\* DictWriter.writerow: one field per fieldname, in fieldnames order
writerow(rowdict) == [i \in 1..Len(fieldnames) |-> CsvField(rowdict[fieldnames[i]])]

\* DictReader: the dict of one data row under the file's header row. A column
\* the row is too short for reads as None (restval); fields beyond the header
\* are not reachable by column name. A column the header lacks has no key.
KeyError == "<KeyError>"

ReadRow(header, row) ==
    [c \in {fieldnames[i] : i \in 1..Len(fieldnames)} |->
        LET at == {i \in 1..Len(header) : header[i] = c}
        IN  IF at = {} THEN KeyError
            ELSE LET i == CHOOSE j \in at : \A k \in at : k <= j
                 IN  IF i <= Len(row) THEN row[i] ELSE None]

HasKey(dict, key) == \E i \in 1..Len(dict) : dict[i].link = key

DictSet_KeepFirst(dict, key, value) ==
    IF HasKey(dict, key) THEN dict ELSE Append(dict, value)

\* dict[key] = value: replaces the value in place when the key is present
\* (the key keeps its insertion position), appends otherwise
DictSet(dict, key, value) ==
    IF HasKey(dict, key)
    THEN [i \in 1..Len(dict) |-> IF dict[i].link = key THEN value ELSE dict[i]]
    ELSE Append(dict, value)

DictGet(dict, key) == dict[CHOOSE i \in 1..Len(dict) : dict[i].link = key]

RECURSIVE ReadRows(_, _, _)
ReadRows(dict, header, rows) ==
    IF rows = <<>> THEN dict
    ELSE LET row == ReadRow(header, Head(rows))
         IN  IF Head(rows) = <<>>
             THEN ReadRows(dict, header, Tail(rows))
             ELSE ReadRows(DictSet(dict, row.link, row), header, Tail(rows))

\* the first data row consumed as if it were the header
load_feedback_SkipsFirstRow(f) ==
    IF ~f.isfile THEN <<>>
    ELSE IF Len(f.rows) < 2 THEN <<>>
    ELSE ReadRows(<<>>, Head(f.rows), Tail(Tail(f.rows)))

load_feedback(f) ==
    IF ~f.isfile THEN <<>>
    ELSE IF f.rows = <<>> THEN <<>>
    ELSE ReadRows(<<>>, Head(f.rows), Tail(f.rows))

\* video | {"feedback": feedback}
Rated(v, fb) == [keyword |-> v.keyword, link |-> v.link,
                 feedback |-> fb, upload_date |-> v.upload_date]

\* feedback_memory[video["link"]] = video | {"feedback": feedback}
Remember_Forgotten(memory, v, fb) == memory

Remember(memory, v, fb) == DictSet(memory, v.link, Rated(v, fb))

save_feedback_AlwaysHeader(f, exists, v, fb) ==
    [isfile |-> TRUE,
     rows   |-> f.rows \o <<fieldnames>> \o <<writerow(Rated(v, fb))>>]

\* save_feedback after `file_exists` was read: open(..., "a") creates the
\* file, the header is written when file_exists was false, then the row
save_feedback(f, exists, v, fb) ==
    [isfile |-> TRUE,
     rows   |-> f.rows \o (IF exists THEN <<>> ELSE <<fieldnames>>)
                       \o <<writerow(Rated(v, fb))>>]

-----------------------------------------------------------------------------
(* Weight model and selector: pick_video *)

RECURSIVE KeywordBoost_SignSlip(_, _, _)
KeywordBoost_SignSlip(base, v, values) ==
    IF values = <<>> THEN base
    ELSE LET fb == Head(values)
             next == IF fb.keyword = v.keyword
                     THEN IF fb.feedback = "definitely" THEN base - 3
                          ELSE IF fb.feedback = "maybe" THEN base + 1
                          ELSE IF fb.feedback = "never" THEN 0
                          ELSE base
                     ELSE base
         IN  KeywordBoost_SignSlip(next, v, Tail(values))

\* the inner loop over feedback_memory.values(), from running weight `base`
RECURSIVE KeywordBoost(_, _, _)
KeywordBoost(base, v, values) ==
    IF values = <<>> THEN base
    ELSE LET fb == Head(values)
             next == IF fb.keyword = v.keyword
                     THEN IF fb.feedback = "definitely" THEN base + 3
                          ELSE IF fb.feedback = "maybe" THEN base + 1
                          ELSE IF fb.feedback = "never" THEN 0
                          ELSE base
                     ELSE base
         IN  KeywordBoost(next, v, Tail(values))

\* the recency boost: a falsy upload_date gives none, an unparsable one
\* raises inside the try and gives none
RecencyBoost(v, t) ==
    IF v.upload_date \in {None, ""} THEN 0
    ELSE IF v.upload_date \notin DOMAIN DayOf THEN 0
    ELSE IF DayOf[v.upload_date] > t - RECENCY_DAYS THEN 2
    ELSE 0

Weight_Rezero(v, memory, t) ==
    IF KeywordBoost(1, v, memory) = 0 THEN 0
    ELSE KeywordBoost(1, v, memory) + RecencyBoost(v, t)

Weight(v, memory, t) == KeywordBoost(1, v, memory) + RecencyBoost(v, t)

Unrated_NoFilter(v, memory) == TRUE

Unrated(v, memory) == ~HasKey(memory, v.link)

\* rated only if the history holds the link under the same keyword
candidates_PerKeyword(vs, memory) ==
    SelectSeq(vs, LAMBDA v :
        ~\E i \in 1..Len(memory) :
            memory[i].link = v.link /\ memory[i].keyword = v.keyword)

candidates(vs, memory) == SelectSeq(vs, LAMBDA v : Unrated(v, memory))

Positive_OrZero(w) == w >= 0

Positive(w) == w > 0

weighted(vs, memory, t) ==
    SelectSeq(candidates(vs, memory), LAMBDA v : Positive(Weight(v, memory, t)))

\* the heaviest candidates only
pick_video_ArgMax(vs, memory, t) ==
    IF candidates(vs, memory) = <<>> THEN {NoVideo}
    ELSE IF weighted(vs, memory, t) = <<>> THEN {NoVideo}
    ELSE {weighted(vs, memory, t)[i] : i \in
            {j \in 1..Len(weighted(vs, memory, t)) :
                \A k \in 1..Len(weighted(vs, memory, t)) :
                    Weight(weighted(vs, memory, t)[k], memory, t)
                        <= Weight(weighted(vs, memory, t)[j], memory, t)}}

pick_video_Unfiltered(vs, memory, t) ==
    IF candidates(vs, memory) = <<>> THEN {NoVideo}
    ELSE {candidates(vs, memory)[i] : i \in 1..Len(candidates(vs, memory))}

\* the values pick_video can return: None (NoVideo), or any of the positively
\* weighted candidates (random.choices gives each a positive probability)
pick_video(vs, memory, t) ==
    IF candidates(vs, memory) = <<>> THEN {NoVideo}
    ELSE IF weighted(vs, memory, t) = <<>> THEN {NoVideo}
    ELSE {weighted(vs, memory, t)[i] : i \in 1..Len(weighted(vs, memory, t))}

-----------------------------------------------------------------------------
(* The stores a session can find on disk *)

Store(present, records) ==
    [isfile |-> present,
     rows   |-> IF present THEN <<fieldnames>> \o records ELSE <<>>]

StoreAbsent == Store(FALSE, <<>>)

StoreHeaderOnly == Store(TRUE, <<>>)

\* left by one earlier session
StoreOneRecord == Store(TRUE, << <<"x", "u1", "definitely", "">> >>)

\* left by two earlier sessions that both rated u9
StoreRerated == Store(TRUE, << <<"y", "u9", "never", "">>, <<"y", "u9", "maybe", "">> >>)

Stores == {StoreAbsent, StoreHeaderOnly, StoreOneRecord, StoreRerated}

-----------------------------------------------------------------------------
(* interactive_loop, one instance per session *)

InitFrom(pools) ==
    /\ feedback_file \in Stores
    /\ now = Today
    /\ videos \in pools
    /\ pc = [s \in Sessions |-> "idle"]
    /\ feedback_memory = [s \in Sessions |-> <<>>]
    /\ video = [s \in Sessions |-> NoVideo]
    /\ feedback = [s \in Sessions |-> None]
    /\ file_exists = [s \in Sessions |-> FALSE]

Init == InitFrom(Pools)

Active(s) == pc[s] \in {"draw", "prompt", "save"}

Terminated(s) == pc[s] = "done"

\* feedback_memory = load_feedback()
Load(s) ==
    /\ pc[s] = "idle"
    /\ feedback_memory' = [feedback_memory EXCEPT ![s] = load_feedback(feedback_file)]
    /\ pc' = [pc EXCEPT ![s] = "draw"]
    /\ UNCHANGED <<feedback_file, now, videos, video, feedback, file_exists>>

\* the store is owned by one session at a time
LoadExclusive(s) ==
    /\ \A t \in Sessions \ {s} : ~Active(t)
    /\ Load(s)

IsQuit_Legacy(fb) == fb = "q"

\* feedback == "quit"
IsQuit(fb) == fb = "quit"

IsRating_Legacy(fb) == fb \in Ratings \cup {"n", "m", "y"}

\* feedback in ["never", "maybe", "definitely"]
IsRating(fb) == fb \in Ratings

\* video = pick_video(videos, feedback_memory); if not video: break
Draw(s) ==
    /\ pc[s] = "draw"
    /\ \E v \in pick_video(videos, feedback_memory[s], now) :
        /\ video' = [video EXCEPT ![s] = v]
        /\ pc' = [pc EXCEPT ![s] = IF v = NoVideo THEN "done" ELSE "prompt"]
    /\ UNCHANGED <<feedback_file, now, videos, feedback_memory, feedback, file_exists>>

\* feedback = input(...).strip().lower() and the if/elif/else on it, with
\* save_feedback run to completion
Respond(s) ==
    /\ pc[s] = "prompt"
    /\ \E raw \in RawInputs :
        LET fb == StripLower(raw) IN
        /\ feedback' = [feedback EXCEPT ![s] = fb]
        /\ IF IsQuit(fb)
           THEN /\ pc' = [pc EXCEPT ![s] = "done"]
                /\ UNCHANGED <<feedback_file, feedback_memory, file_exists>>
           ELSE IF IsRating(fb)
           THEN /\ file_exists' = [file_exists EXCEPT ![s] = feedback_file.isfile]
                /\ feedback_file' = save_feedback(feedback_file, feedback_file.isfile,
                                                  video[s], fb)
                /\ feedback_memory' = [feedback_memory EXCEPT ![s] =
                                          Remember(@, video[s], fb)]
                /\ pc' = [pc EXCEPT ![s] = "draw"]
           ELSE /\ pc' = [pc EXCEPT ![s] = "draw"]
                /\ UNCHANGED <<feedback_file, feedback_memory, file_exists>>
    /\ UNCHANGED <<now, videos, video>>

\* the wall clock moves on by a day
Tick ==
    /\ now < Today + MaxTicks
    /\ now' = now + 1
    /\ UNCHANGED <<feedback_file, videos, pc, feedback_memory, video, feedback, file_exists>>

Next ==
    \/ \E s \in Sessions : LoadExclusive(s)
    \/ \E s \in Sessions : Draw(s)
    \/ \E s \in Sessions : Respond(s)
    \/ Tick

Spec == Init /\ [][Next]_vars

-----------------------------------------------------------------------------
(* Two sessions interleaved on one store: save_feedback is two steps, the  *)
(* os.path.isfile test and the append                                      *)

\* input and dispatch, up to file_exists = os.path.isfile(FEEDBACK_FILE)
RespondCheck(s) ==
    /\ pc[s] = "prompt"
    /\ \E raw \in RawInputs :
        LET fb == StripLower(raw) IN
        /\ feedback' = [feedback EXCEPT ![s] = fb]
        /\ IF IsQuit(fb)
           THEN /\ pc' = [pc EXCEPT ![s] = "done"]
                /\ UNCHANGED file_exists
           ELSE IF IsRating(fb)
           THEN /\ Len(feedback_file.rows) < MaxRows
                /\ file_exists' = [file_exists EXCEPT ![s] = feedback_file.isfile]
                /\ pc' = [pc EXCEPT ![s] = "save"]
           ELSE /\ pc' = [pc EXCEPT ![s] = "draw"]
                /\ UNCHANGED file_exists
    /\ UNCHANGED <<feedback_file, now, videos, feedback_memory, video>>

\* the with block of save_feedback, then feedback_memory[video["link"]] = ...
SaveWrite(s) ==
    /\ pc[s] = "save"
    /\ feedback_file' = save_feedback(feedback_file, file_exists[s], video[s], feedback[s])
    /\ feedback_memory' = [feedback_memory EXCEPT ![s] =
                              Remember(@, video[s], feedback[s])]
    /\ pc' = [pc EXCEPT ![s] = "draw"]
    /\ UNCHANGED <<now, videos, video, feedback, file_exists>>

NextConc ==
    \/ \E s \in Sessions : Load(s)
    \/ \E s \in Sessions : Draw(s)
    \/ \E s \in Sessions : RespondCheck(s)
    \/ \E s \in Sessions : SaveWrite(s)

InitConc == InitFrom({PoolPair})

SpecConc == InitConc /\ [][NextConc]_vars

-----------------------------------------------------------------------------
(* Properties *)

Last(seq) == seq[Len(seq)]

\* the data rows of the store, as DictReader yields them
Records(f) ==
    IF f.rows = <<>> THEN <<>>
    ELSE [i \in 1..(Len(f.rows) - 1) |-> ReadRow(Head(f.rows), f.rows[i + 1])]

Pool == {videos[i] : i \in 1..Len(videos)}

\* session s takes the step that answers its prompt
Answers(s) == pc[s] = "prompt" /\ pc'[s] # "prompt"

\* session s takes the step that draws a candidate
Draws(s) == pc[s] = "draw" /\ pc'[s] # "draw"

\* C1. Exclusion: the candidate pick_video returned is never one whose link
\* is a key of the history it was passed, and, the store being owned by one
\* session at a time, never one whose link has a record in the store: a link
\* rated earlier in this session or in an earlier session is not presented.
C1_Exclusion ==
    \A s \in Sessions :
        pc[s] = "prompt" =>
            /\ ~HasKey(feedback_memory[s], video[s].link)
            /\ \A i \in 1..Len(Records(feedback_file)) :
                  Records(feedback_file)[i].link # video[s].link

\* a later session is shown a candidate after the earlier session recorded
\* "never" for u1, a link the pool holds under keywords x and y
C1_Witness ==
    /\ videos = PoolMixed
    /\ Terminated("s1")
    /\ pc["s2"] = "prompt"
    /\ HasKey(feedback_memory["s2"], "u1")
    /\ \E i \in 1..Len(feedback_memory["s1"]) :
          /\ feedback_memory["s1"][i].link = "u1"
          /\ feedback_memory["s1"][i].feedback = "never"
    /\ \E i \in 1..Len(Records(feedback_file)) :
          /\ Records(feedback_file)[i].link = "u1"
          /\ Records(feedback_file)[i].feedback = "never"

\* the running weight after one more record with rating fb on the keyword
Boosted(base, fb) ==
    CASE fb = "definitely" -> base + 3
      [] fb = "maybe"      -> base + 1
      [] fb = "never"      -> 0
      [] OTHER             -> base

\* C2. Valid-rating transition: when the user answers the prompt with never,
\* maybe or definitely, exactly one record with the presented candidate's
\* link, keyword and rating is appended to the store, the in-memory history
\* maps that link to that rating, the session is at its next draw (ACTIVE),
\* and the keyword weights that draw computes count the new record.
C2_ValidRating ==
    [][\A s \in Sessions :
        (Answers(s) /\ feedback'[s] \in Ratings) =>
            /\ Len(Records(feedback_file')) = Len(Records(feedback_file)) + 1
            /\ SubSeq(Records(feedback_file'), 1, Len(Records(feedback_file)))
                  = Records(feedback_file)
            /\ Last(Records(feedback_file')).link = video[s].link
            /\ Last(Records(feedback_file')).keyword = video[s].keyword
            /\ Last(Records(feedback_file')).feedback = feedback'[s]
            /\ HasKey(feedback_memory'[s], video[s].link)
            /\ DictGet(feedback_memory'[s], video[s].link).feedback = feedback'[s]
            /\ DictGet(feedback_memory'[s], video[s].link).keyword = video[s].keyword
            /\ Len(feedback_memory'[s]) = Len(feedback_memory[s]) + 1
            /\ pc'[s] = "draw"
            /\ \A v \in Pool :
                  v.keyword = video[s].keyword =>
                      KeywordBoost(1, v, feedback_memory'[s])
                          = Boosted(KeywordBoost(1, v, feedback_memory[s]), feedback'[s])
    ]_vars

\* a session has just recorded "maybe" for the candidate it was shown
C2_Witness ==
    \E s \in Sessions :
        /\ pc[s] = "draw"
        /\ feedback[s] = "maybe"
        /\ Len(feedback_memory[s]) > 0
        /\ Last(feedback_memory[s]).link = video[s].link
        /\ Last(feedback_memory[s]).feedback = "maybe"
        /\ Last(Records(feedback_file)).link = video[s].link
        /\ Last(Records(feedback_file)).feedback = "maybe"

\* C3. A "never" cannot be revived by later boosts: whenever the history
\* holds a never record on a candidate's keyword, the keyword fold of that
\* candidate (its weight before the recency bonus) is 0.
C3_NeverNotRevived ==
    \A s \in Sessions : \A v \in Pool :
        (\E i \in 1..Len(feedback_memory[s]) :
            /\ feedback_memory[s][i].keyword = v.keyword
            /\ feedback_memory[s][i].feedback = "never")
        => KeywordBoost(1, v, feedback_memory[s]) = 0

\* the upload date parses and lies within the last 180 days
Recent(v, t) ==
    /\ v.upload_date \in DOMAIN DayOf
    /\ DayOf[v.upload_date] <= t
    /\ t - DayOf[v.upload_date] < RECENCY_DAYS

\* the history holds records on v's keyword, all of them "never"
OnlyNever(v, memory) ==
    /\ \E i \in 1..Len(memory) :
          memory[i].keyword = v.keyword /\ memory[i].feedback = "never"
    /\ \A i \in 1..Len(memory) :
          memory[i].keyword = v.keyword => memory[i].feedback = "never"

\* C4. Recency override: the final weight is the keyword fold plus 2 when
\* the upload date is within the last 180 days and the keyword fold alone
\* otherwise; a candidate uploaded today whose keyword has only never
\* records has weight exactly 2 and, if unrated, can be returned by
\* pick_video.
C4_RecencyOverride ==
    \A s \in Sessions : \A v \in Pool :
        LET memory == feedback_memory[s] IN
        /\ Weight(v, memory, now)
              = KeywordBoost(1, v, memory) + (IF Recent(v, now) THEN 2 ELSE 0)
        /\ (/\ OnlyNever(v, memory)
            /\ v.upload_date \in DOMAIN DayOf
            /\ DayOf[v.upload_date] = now)
           => /\ Weight(v, memory, now) = 2
              /\ Unrated(v, memory) => v \in pick_video(videos, memory, now)

\* a candidate uploaded today is presented although its keyword has only a
\* never record
C4_Witness ==
    \E s \in Sessions :
        /\ pc[s] = "prompt"
        /\ OnlyNever(video[s], feedback_memory[s])
        /\ video[s].upload_date \in DOMAIN DayOf
        /\ DayOf[video[s].upload_date] = now
        /\ Weight(video[s], feedback_memory[s], now) = 2

\* C5. Zero-weight exclusion: every candidate pick_video returns has a
\* final weight > 0 under the history and clock of the draw.
C5_ZeroWeightExcluded ==
    [][\A s \in Sessions :
        (Draws(s) /\ pc'[s] = "prompt") =>
            /\ video'[s] \in Pool
            /\ Weight(video'[s], feedback_memory[s], now) > 0
    ]_vars

\* a candidate is presented while another unrated candidate has weight 0
C5_Witness ==
    \E s \in Sessions :
        /\ pc[s] = "prompt"
        /\ \E v \in Pool :
              /\ Unrated(v, feedback_memory[s])
              /\ Weight(v, feedback_memory[s], now) = 0

\* the candidates that are absent from the history and of weight > 0
Eligible(s) ==
    {v \in Pool : /\ ~HasKey(feedback_memory[s], v.link)
                  /\ Weight(v, feedback_memory[s], now) > 0}

\* C6. Exhaustion: a draw returns none exactly when no candidate is both
\* absent from the history and of weight > 0 (so it does when every
\* candidate is in the history); the session then goes from ACTIVE to
\* TERMINATED and store and history are left as they were.
C6_Exhaustion ==
    [][\A s \in Sessions :
        Draws(s) =>
            /\ (video'[s] = NoVideo) <=> (Eligible(s) = {})
            /\ (pc'[s] = "done") <=> (video'[s] = NoVideo)
            /\ (\A v \in Pool : HasKey(feedback_memory[s], v.link)) => pc'[s] = "done"
            /\ pc'[s] = "done" =>
                  /\ feedback_file' = feedback_file
                  /\ feedback_memory' = feedback_memory
    ]_vars

\* a session ended because each of the four candidates is in its history
C6_Witness ==
    \E s \in Sessions :
        /\ Terminated(s)
        /\ video[s] = NoVideo
        /\ Len(videos) = 4
        /\ \A v \in Pool : HasKey(feedback_memory[s], v.link)

\* C7. Quit: answering the prompt with quit terminates the session and
\* changes neither the store nor the in-memory histories; a terminated
\* session stays terminated, keeps its history, and every later change of
\* the store is the append of another session answering its own prompt.
C7_Quit ==
    [][\A s \in Sessions :
        /\ (Answers(s) /\ feedback'[s] = "quit") =>
              /\ pc'[s] = "done"
              /\ feedback_file' = feedback_file
              /\ feedback_memory' = feedback_memory
        /\ Terminated(s) =>
              /\ pc'[s] = "done"
              /\ feedback_memory'[s] = feedback_memory[s]
              /\ feedback_file' # feedback_file =>
                    \E t \in Sessions \ {s} : pc[t] = "prompt" /\ pc'[t] = "draw"
    ]_vars

\* the first session has quit at a prompt and the other has since recorded
\* a rating
C7_Witness ==
    /\ Terminated("s1")
    /\ feedback["s1"] = "quit"
    /\ video["s1"] # NoVideo
    /\ pc["s2"] = "draw"
    /\ feedback["s2"] \in Ratings

\* C8. Invalid input: answering the prompt with anything other than never,
\* maybe, definitely or quit leaves the session ACTIVE and the store and the
\* in-memory histories unchanged.
C8_InvalidInput ==
    [][\A s \in Sessions :
        (Answers(s) /\ feedback'[s] \notin Ratings \cup {"quit"}) =>
            /\ pc'[s] \in {"draw", "prompt", "save"}
            /\ feedback_file' = feedback_file
            /\ feedback_memory' = feedback_memory
    ]_vars

\* a session is back at its draw after the input "y"
C8_Witness ==
    \E s \in Sessions :
        /\ pc[s] = "draw"
        /\ feedback[s] = "y"
        /\ video[s] # NoVideo

\* C9. Append durability: right after a session's save_feedback has
\* appended its record, a fresh load_feedback of the store maps the record's
\* link to the record's keyword and rating, whatever the store held before.
C9_AppendDurable ==
    [][\A s \in Sessions :
        (pc[s] = "save" /\ pc'[s] = "draw") =>
            LET history == load_feedback(feedback_file') IN
            /\ HasKey(history, video[s].link)
            /\ DictGet(history, video[s].link).keyword = video[s].keyword
            /\ DictGet(history, video[s].link).feedback = feedback[s]
    ]_vars

\* a session has just appended a record for a link the store already held
\* an earlier record for, with another rating
C9_Witness ==
    \E s \in Sessions :
        /\ pc[s] = "draw"
        /\ feedback[s] \in Ratings
        /\ Len(Records(feedback_file)) >= 2
        /\ Last(Records(feedback_file)).link = video[s].link
        /\ Last(Records(feedback_file)).feedback = feedback[s]
        /\ \E i \in 1..(Len(Records(feedback_file)) - 1) :
              /\ Records(feedback_file)[i].link = video[s].link
              /\ Records(feedback_file)[i].feedback # feedback[s]
        /\ DictGet(load_feedback(feedback_file), video[s].link).feedback = feedback[s]

\* the store is absent and empty, or starts with the one header row
HeaderOnce(f) ==
    IF f.isfile
    THEN /\ f.rows # <<>>
         /\ f.rows[1] = fieldnames
         /\ \A i \in 2..Len(f.rows) : f.rows[i] # fieldnames
    ELSE f.rows = <<>>

\* C10. Append-only log: no step removes, changes or moves a row of the
\* store or removes the file; the store holds the header exactly once, as
\* its first row, written by the first write to an absent file; and a
\* session that loads an absent file starts from the empty history.
C10_AppendOnly ==
    /\ [](HeaderOnce(feedback_file))
    /\ [][/\ Len(feedback_file'.rows) >= Len(feedback_file.rows)
          /\ SubSeq(feedback_file'.rows, 1, Len(feedback_file.rows)) = feedback_file.rows
          /\ feedback_file.isfile => feedback_file'.isfile
          /\ \A s \in Sessions :
                (pc[s] = "idle" /\ pc'[s] = "draw" /\ ~feedback_file.isfile)
                    => feedback_memory'[s] = <<>>
       ]_vars

\* a session that found no file has written the header and its first record
C10_Witness ==
    \E s \in Sessions :
        /\ pc[s] = "draw"
        /\ feedback[s] \in Ratings
        /\ ~file_exists[s]
        /\ feedback_file.isfile
        /\ feedback_file.rows = <<fieldnames, writerow(Rated(video[s], feedback[s]))>>

-----------------------------------------------------------------------------
(* A store edited by hand: rows that lack trailing fields *)

\* a complete record, then a row cut after its link (no feedback column)
StoreNoFeedback ==
    Store(TRUE, << <<"x", "u1", "definitely", "">>, <<"x", "u2">> >>)

\* a row cut after its keyword (no link column), then a complete record
StoreNoLink ==
    Store(TRUE, << <<"y">>, <<"x", "u1", "maybe", "">> >>)

EditedStores == {StoreNoFeedback, StoreNoLink}

InitEdited ==
    /\ feedback_file \in EditedStores
    /\ now = Today
    /\ videos \in Pools
    /\ pc = [s \in Sessions |-> "idle"]
    /\ feedback_memory = [s \in Sessions |-> <<>>]
    /\ video = [s \in Sessions |-> NoVideo]
    /\ feedback = [s \in Sessions |-> None]
    /\ file_exists = [s \in Sessions |-> FALSE]

SpecEdited == InitEdited /\ [][Next]_vars

\* the row has every field that load_feedback and pick_video read
WellFormed(record) ==
    /\ record.link # None
    /\ record.keyword # None
    /\ record.feedback # None

\* C11. Malformed records are skipped on load: the history of a session
\* that loaded a store with a row lacking link, keyword or feedback holds
\* the link of every well-formed row and no entry derived from the
\* malformed row.
C11_MalformedSkipped ==
    \A s \in Sessions :
        pc[s] \in {"draw", "prompt"} =>
            /\ \A i \in 1..Len(Records(feedback_file)) :
                  WellFormed(Records(feedback_file)[i])
                      => HasKey(feedback_memory[s], Records(feedback_file)[i].link)
            /\ \A i \in 1..Len(feedback_memory[s]) :
                  WellFormed(feedback_memory[s][i])

\* links a further record may carry: those of the pool and two others
RecordLinks == {"u1", "u2", "u3", "u8", "u9"}

\* C12. Weight monotonicity: for every candidate of the pool and every
\* history a session holds, adding a definitely record on the candidate's
\* keyword, under a link the history does not hold, never lowers the
\* candidate's weight.
C12_DefinitelyMonotone ==
    \A s \in Sessions : \A v \in Pool : \A link \in RecordLinks :
        ~HasKey(feedback_memory[s], link) =>
            Weight(v, Remember(feedback_memory[s], Video(v.keyword, link, None), "definitely"), now)
                >= Weight(v, feedback_memory[s], now)

\* a session has just recorded "definitely", and an unrated candidate on the
\* same keyword, zeroed by an earlier never, weighs 3 more than before
C12_Witness ==
    \E s \in Sessions :
        /\ pc[s] = "draw"
        /\ feedback[s] = "definitely"
        /\ Len(feedback_memory[s]) >= 2
        /\ Last(feedback_memory[s]).link = video[s].link
        /\ \E v \in Pool :
              LET before == SubSeq(feedback_memory[s], 1, Len(feedback_memory[s]) - 1) IN
              /\ Unrated(v, feedback_memory[s])
              /\ v.keyword = video[s].keyword
              /\ KeywordBoost(1, v, before) = 0
              /\ Weight(v, feedback_memory[s], now) = Weight(v, before, now) + 3

\* the number of records of the history on keyword kw with rating fb
Count(history, kw, fb) ==
    Cardinality({i \in 1..Len(history) :
                    history[i].keyword = kw /\ history[i].feedback = fb})

\* C13. Boost arithmetic: with no never record on its keyword and no
\* recency bonus a candidate's weight is 1 + 3 * (definitely records on its
\* keyword) + (maybe records on its keyword), in the session's history and
\* in the history reloaded from the store; for A = (x, u1) and B = (x, u2),
\* undated, both weigh 1 under the empty store, and once a session has
\* rated A definitely, as the store's only record, B weighs 4 under the
\* reloaded store.
C13_BoostArithmetic ==
    /\ \A s \in Sessions : \A v \in Pool :
          \A history \in {feedback_memory[s], load_feedback(feedback_file)} :
              (Count(history, v.keyword, "never") = 0 /\ ~Recent(v, now)) =>
                  Weight(v, history, now)
                      = 1 + 3 * Count(history, v.keyword, "definitely")
                          + Count(history, v.keyword, "maybe")
    /\ videos = PoolMixed =>
          LET A == videos[1]
              B == videos[2]
              reloaded == load_feedback(feedback_file)
          IN  /\ Records(feedback_file) = <<>> =>
                    Weight(A, reloaded, now) = 1 /\ Weight(B, reloaded, now) = 1
              /\ \A s \in Sessions :
                    (/\ pc[s] = "draw"
                     /\ video[s] = A
                     /\ feedback[s] = "definitely"
                     /\ Len(Records(feedback_file)) = 1)
                    => Weight(B, reloaded, now) = 4

\* a session that found no file has rated A definitely, and B weighs 4
\* under the reloaded store
C13_Witness ==
    /\ videos = PoolMixed
    /\ pc["s1"] = "draw"
    /\ feedback["s1"] = "definitely"
    /\ video["s1"] = videos[1]
    /\ ~file_exists["s1"]
    /\ Len(Records(feedback_file)) = 1
    /\ Weight(videos[2], load_feedback(feedback_file), now) = 4
    /\ Weight(videos[2], feedback_memory["s1"], now) = 4

\* in session s, candidate b is the boosted one: its keyword has exactly one
\* record, a definitely, so b weighs 4, and the other eligible candidates,
\* at least one, weigh less and are on keywords without any record
Dominant(s, b) ==
    /\ b \in Eligible(s)
    /\ Count(feedback_memory[s], b.keyword, "definitely") = 1
    /\ \A i \in 1..Len(feedback_memory[s]) :
          feedback_memory[s][i].keyword = b.keyword
              => feedback_memory[s][i].feedback = "definitely"
    /\ Weight(b, feedback_memory[s], now) = 4
    /\ Eligible(s) # {b}
    /\ \A o \in Eligible(s) \ {b} :
          /\ Weight(o, feedback_memory[s], now) < 4
          /\ \A i \in 1..Len(feedback_memory[s]) :
                feedback_memory[s][i].keyword # o.keyword

\* C14 as stated. Boosted candidate dominates: a draw made while B is the
\* boosted candidate of weight 4 among lower-weight candidates on unboosted
\* keywords always returns B.
C14_AlwaysBoosted ==
    [][\A s \in Sessions : \A b \in Pool :
        (Draws(s) /\ Dominant(s, b)) => video'[s] = b
    ]_vars

\* C14, amended. While B is the boosted candidate of weight 4 among
\* lower-weight candidates on unboosted keywords, the draw can return B and
\* can return each of the lower-weight candidates.
C14_AnyPositiveCandidate ==
    \A s \in Sessions : \A b \in Pool :
        (pc[s] = "draw" /\ Dominant(s, b)) =>
            \A o \in Eligible(s) : ENABLED (Draw(s) /\ video'[s] = o)

\* a lower-weight candidate is presented although B is the boosted one
C14_Witness ==
    \E s \in Sessions : \E b \in Pool :
        /\ pc[s] = "prompt"
        /\ Dominant(s, b)
        /\ video[s] \in Eligible(s)
        /\ video[s] # b
        /\ Weight(video[s], feedback_memory[s], now) < Weight(b, feedback_memory[s], now)

\* C15. Re-prompt keeps the candidate: the candidate presented after an
\* invalid input is the candidate that was presented when the invalid input
\* was entered.
C15_RepromptSameCandidate ==
    [][\A s \in Sessions :
        (Draws(s) /\ feedback[s] \notin Ratings \cup {"quit", None})
            => video'[s] = video[s]
    ]_vars

-----------------------------------------------------------------------------
(* Progress: the loop runs pick_video as soon as it is back at the top, and *)
(* the user answers every prompt                                            *)

SpecFair ==
    /\ Spec
    /\ \A s \in Sessions : WF_vars(Draw(s)) /\ WF_vars(Respond(s))

\* the links of the pool that session s has no record for
UnratedLinks(s) ==
    {v.link : v \in Pool} \ {feedback_memory[s][i].link : i \in 1..Len(feedback_memory[s])}

\* session s answers its prompt with an invalid input
AnswersInvalid(s) == Answers(s) /\ feedback'[s] \notin Ratings \cup {"quit"}

\* C16. Session termination: a valid rating is given for a link that was
\* unrated and leaves exactly one unrated link fewer, no other step of a
\* running session adds an unrated link, so a session takes at most as many
\* valid ratings as the pool has distinct links; and a session whose user
\* from some point on enters no invalid input ends up TERMINATED (or was
\* never started).
C16_Termination ==
    /\ [][\A s \in Sessions :
            /\ (Answers(s) /\ feedback'[s] \in Ratings) =>
                  /\ video[s].link \in UnratedLinks(s)
                  /\ UnratedLinks(s)' = UnratedLinks(s) \ {video[s].link}
            /\ pc[s] # "idle" => UnratedLinks(s)' \subseteq UnratedLinks(s)
            /\ Cardinality(UnratedLinks(s)) <= Cardinality({v.link : v \in Pool})
       ]_vars
    /\ \A s \in Sessions :
          <>[][~AnswersInvalid(s)]_vars => <>[](pc[s] \in {"idle", "done"})

\* a session has ended by exhaustion after rating each of the three links
\* of the pool, the store having been empty
C16_Witness ==
    \E s \in Sessions :
        /\ Terminated(s)
        /\ video[s] = NoVideo
        /\ Cardinality({v.link : v \in Pool}) = 3
        /\ Len(feedback_memory[s]) = 3
        /\ Len(Records(feedback_file)) = 3
        /\ UnratedLinks(s) = {}

\* what the claims compare of a history: per entry, in fold order, the
\* link, the keyword and the rating
View(history) ==
    [i \in 1..Len(history) |->
        <<history[i].link, history[i].keyword, history[i].feedback>>]

\* C17. Memory mirrors the log: between the iterations of a session that
\* owns the store, its in-memory history has the links, the keyword and
\* rating per link and the fold order of a fresh load_feedback of the
\* store, and gives every candidate the weight the reloaded history gives.
C17_MemoryMirrorsLog ==
    \A s \in Sessions :
        pc[s] \in {"draw", "prompt"} =>
            /\ View(feedback_memory[s]) = View(load_feedback(feedback_file))
            /\ \A v \in Pool :
                  Weight(v, feedback_memory[s], now)
                      = Weight(v, load_feedback(feedback_file), now)

\* a session that loaded the twice-rated u9 has since recorded a rating of
\* its own
C17_Witness ==
    \E s \in Sessions :
        /\ pc[s] = "draw"
        /\ feedback[s] \in Ratings
        /\ Len(feedback_memory[s]) >= 2
        /\ feedback_memory[s][1].link = "u9"
        /\ Last(feedback_memory[s]).link = video[s].link
        /\ Len(Records(feedback_file)) > Len(feedback_memory[s])

\* the links that have a record in the store
StoredLinks(f) == {Records(f)[i].link : i \in 1..Len(Records(f))}

\* C18. One record per link per session: every record a session appends
\* carries a link that was neither in its history nor in the store when the
\* candidate was drawn and when the record is written, so the session
\* appends no second record for a link it rated or loaded, also for a link
\* the pool holds under several keywords.
C18_OneRecordPerLink ==
    [][\A s \in Sessions :
        /\ (Draws(s) /\ pc'[s] = "prompt") =>
              /\ ~HasKey(feedback_memory[s], video'[s].link)
              /\ video'[s].link \notin StoredLinks(feedback_file)
        /\ (Answers(s) /\ feedback'[s] \in Ratings) =>
              /\ ~HasKey(feedback_memory[s], video[s].link)
              /\ video[s].link \notin StoredLinks(feedback_file)
              /\ StoredLinks(feedback_file') = StoredLinks(feedback_file) \cup {video[s].link}
    ]_vars

\* a session has rated u1, which the pool holds under x and under y, and
\* then another link, and the store holds one record for u1
C18_Witness ==
    \E s \in Sessions :
        /\ videos = PoolMixed
        /\ pc[s] = "draw"
        /\ feedback[s] \in Ratings
        /\ Len(feedback_memory[s]) >= 2
        /\ feedback_memory[s][1].link = "u1"
        /\ Last(feedback_memory[s]).link = video[s].link
        /\ video[s].link # "u1"
        /\ Cardinality({i \in 1..Len(Records(feedback_file)) :
                            Records(feedback_file)[i].link = "u1"}) = 1

\* C19. Two concurrent sessions on one store: with two sessions interleaved
\* and each write atomic, the store is always one header followed only by
\* complete records (no second header among the rows), and no step removes
\* or alters a row.
C19_SingleHeaderLog ==
    /\ HeaderOnce(feedback_file)
    /\ \A i \in 1..Len(feedback_file.rows) :
          Len(feedback_file.rows[i]) = Len(fieldnames)

-----------------------------------------------------------------------------
(* The simpler script variant (lines 252-445): no upload_date, no recency   *)
(* boost, and a session loop that reads the rating codes n/m/y/q.  Its      *)
(* video and CSV row keep the columns keyword, link, feedback.              *)

LegacyVideo(kw, link) == [keyword |-> kw, link |-> link]

\* Candidate lists of the legacy fetchers
LegacyPoolMixed ==
    << LegacyVideo("x", "u1"),
       LegacyVideo("x", "u2"),
       LegacyVideo("y", "u1"),
       LegacyVideo("y", "u3") >>

LegacyPoolOneKeyword ==
    << LegacyVideo("x", "u1"),
       LegacyVideo("x", "u2"),
       LegacyVideo("x", "u3") >>

LegacyPools == {LegacyPoolMixed, LegacyPoolOneKeyword, <<>>}

LegacyCodes == {"n", "m", "y"}

\* input("... (n/m/y/q): ").strip().lower() on the raw lines the user may type
LegacyRawInputs == {"n", " M ", "Y", " Q", "never"}

LegacyStripLower(raw) ==
    CASE raw = " M " -> "m"
      [] raw = "Y"   -> "y"
      [] raw = " Q"  -> "q"
      [] OTHER       -> raw

\* fieldnames of the legacy DictWriter (the columns kept by the model)
legacy_fieldnames == <<"keyword", "link", "feedback">>

legacy_writerow(rowdict) ==
    [i \in 1..Len(legacy_fieldnames) |-> CsvField(rowdict[legacy_fieldnames[i]])]

\* DictReader on one data row under the file's header row
legacy_ReadRow(header, row) ==
    [c \in {legacy_fieldnames[i] : i \in 1..Len(legacy_fieldnames)} |->
        LET at == {i \in 1..Len(header) : header[i] = c}
        IN  IF at = {} THEN KeyError
            ELSE LET i == CHOOSE j \in at : \A k \in at : k <= j
                 IN  IF i <= Len(row) THEN row[i] ELSE None]

RECURSIVE legacy_ReadRows(_, _, _)
legacy_ReadRows(dict, header, rows) ==
    IF rows = <<>> THEN dict
    ELSE LET row == legacy_ReadRow(header, Head(rows))
         IN  IF Head(rows) = <<>>
             THEN legacy_ReadRows(dict, header, Tail(rows))
             ELSE legacy_ReadRows(DictSet(dict, row.link, row), header, Tail(rows))

legacy_load_feedback(f) ==
    IF ~f.isfile THEN <<>>
    ELSE IF f.rows = <<>> THEN <<>>
    ELSE legacy_ReadRows(<<>>, Head(f.rows), Tail(f.rows))

\* video | {"feedback": feedback}
legacy_Rated(v, fb) == [keyword |-> v.keyword, link |-> v.link, feedback |-> fb]

\* feedback_memory[video["link"]] = video | {"feedback": feedback}
legacy_Remember(memory, v, fb) == DictSet(memory, v.link, legacy_Rated(v, fb))

\* save_feedback of the legacy variant: the feedback string is written as
\* it was typed (after strip and lower)
legacy_save_feedback(f, exists, v, fb) ==
    [isfile |-> TRUE,
     rows   |-> f.rows \o (IF exists THEN <<>> ELSE <<legacy_fieldnames>>)
                       \o <<legacy_writerow(legacy_Rated(v, fb))>>]

\* the inner loop over feedback_memory.values(): the comparisons are with
\* the words "definitely", "maybe" and "never"
RECURSIVE legacy_KeywordBoost(_, _, _)
legacy_KeywordBoost(base, v, values) ==
    IF values = <<>> THEN base
    ELSE LET fb == Head(values)
             next == IF fb.keyword = v.keyword
                     THEN IF fb.feedback = "definitely" THEN base + 3
                          ELSE IF fb.feedback = "maybe" THEN base + 1
                          ELSE IF fb.feedback = "never" THEN 0
                          ELSE base
                     ELSE base
         IN  legacy_KeywordBoost(next, v, Tail(values))

legacy_Weight(v, memory) == legacy_KeywordBoost(1, v, memory)

legacy_candidates(vs, memory) == SelectSeq(vs, LAMBDA v : ~HasKey(memory, v.link))

legacy_weighted(vs, memory) ==
    SelectSeq(legacy_candidates(vs, memory), LAMBDA v : legacy_Weight(v, memory) > 0)

\* the values the legacy pick_video can return
legacy_pick_video(vs, memory) ==
    IF legacy_candidates(vs, memory) = <<>> THEN {NoVideo}
    ELSE IF legacy_weighted(vs, memory) = <<>> THEN {NoVideo}
    ELSE {legacy_weighted(vs, memory)[i] : i \in 1..Len(legacy_weighted(vs, memory))}

LegacyStore(present, records) ==
    [isfile |-> present,
     rows   |-> IF present THEN <<legacy_fieldnames>> \o records ELSE <<>>]

\* the stores earlier legacy sessions leave: absent, or records rated n/m/y
LegacyStores ==
    { LegacyStore(FALSE, <<>>),
      LegacyStore(TRUE, << <<"x", "u9", "y">> >>),
      LegacyStore(TRUE, << <<"y", "u8", "n">>, <<"x", "u9", "m">> >>) }

InitLegacy ==
    /\ feedback_file \in LegacyStores
    /\ now = Today
    /\ videos \in LegacyPools
    /\ pc = [s \in Sessions |-> "idle"]
    /\ feedback_memory = [s \in Sessions |-> <<>>]
    /\ video = [s \in Sessions |-> NoVideo]
    /\ feedback = [s \in Sessions |-> None]
    /\ file_exists = [s \in Sessions |-> FALSE]

\* feedback_memory = load_feedback(), the store owned by one session at a time
LegacyLoad(s) ==
    /\ pc[s] = "idle"
    /\ \A t \in Sessions \ {s} : ~Active(t)
    /\ feedback_memory' = [feedback_memory EXCEPT ![s] = legacy_load_feedback(feedback_file)]
    /\ pc' = [pc EXCEPT ![s] = "draw"]
    /\ UNCHANGED <<feedback_file, now, videos, video, feedback, file_exists>>

\* video = pick_video(videos, feedback_memory); if not video: break
LegacyDraw(s) ==
    /\ pc[s] = "draw"
    /\ \E v \in legacy_pick_video(videos, feedback_memory[s]) :
        /\ video' = [video EXCEPT ![s] = v]
        /\ pc' = [pc EXCEPT ![s] = IF v = NoVideo THEN "done" ELSE "prompt"]
    /\ UNCHANGED <<feedback_file, now, videos, feedback_memory, feedback, file_exists>>

\* feedback = input(...).strip().lower() and the if/elif/else on it
LegacyRespond(s) ==
    /\ pc[s] = "prompt"
    /\ \E raw \in LegacyRawInputs :
        LET fb == LegacyStripLower(raw) IN
        /\ feedback' = [feedback EXCEPT ![s] = fb]
        /\ IF fb = "q"
           THEN /\ pc' = [pc EXCEPT ![s] = "done"]
                /\ UNCHANGED <<feedback_file, feedback_memory, file_exists>>
           ELSE IF fb \in LegacyCodes
           THEN /\ file_exists' = [file_exists EXCEPT ![s] = feedback_file.isfile]
                /\ feedback_file' = legacy_save_feedback(feedback_file, feedback_file.isfile,
                                                         video[s], fb)
                /\ feedback_memory' = [feedback_memory EXCEPT ![s] =
                                          legacy_Remember(@, video[s], fb)]
                /\ pc' = [pc EXCEPT ![s] = "draw"]
           ELSE /\ pc' = [pc EXCEPT ![s] = "draw"]
                /\ UNCHANGED <<feedback_file, feedback_memory, file_exists>>
    /\ UNCHANGED <<now, videos, video>>

NextLegacy ==
    \/ \E s \in Sessions : LegacyLoad(s)
    \/ \E s \in Sessions : LegacyDraw(s)
    \/ \E s \in Sessions : LegacyRespond(s)

SpecLegacy == InitLegacy /\ [][NextLegacy]_vars

\* the history has a record of this keyword with this rating code
LegacyRatedAs(history, kw, code) ==
    \E i \in 1..Len(history) : history[i].keyword = kw /\ history[i].feedback = code

\* C20. Legacy variant learns from its own ratings: for the history of a
\* running legacy session and for the history a reload of the store gives,
\* an unrated candidate whose keyword was rated n weighs 0 and cannot be
\* drawn, and one whose keyword was rated y or m (and never n) weighs more
\* than the unrated weight 1.
C20_LegacyLearns ==
    \A s \in Sessions :
        pc[s] \in {"draw", "prompt"} =>
            \A history \in {feedback_memory[s], legacy_load_feedback(feedback_file)} :
                \A i \in 1..Len(legacy_candidates(videos, history)) :
                    LET v == legacy_candidates(videos, history)[i] IN
                    /\ LegacyRatedAs(history, v.keyword, "n") =>
                          /\ legacy_Weight(v, history) = 0
                          /\ v \notin legacy_pick_video(videos, history)
                    /\ ( /\ ~LegacyRatedAs(history, v.keyword, "n")
                         /\ \/ LegacyRatedAs(history, v.keyword, "y")
                            \/ LegacyRatedAs(history, v.keyword, "m") ) =>
                          legacy_Weight(v, history) > 1

====
